---- MODULE Spec2Model ----
(***************************************************************************)
(* Throughput (src/src/main.rs): reads a byte stream from stdin or from    *)
(* one accepted TCP connection, counts the bytes, and reports the transfer *)
(* rate about once a second; with --pass the bytes are copied to stdout    *)
(* and the reports go to stderr.                                           *)
(*                                                                         *)
(* The program is one sequential thread.  pc is its position; every action *)
(* below is one step of main, measure_tcp_stream or measure_reader.  Tick  *)
(* is the wall clock: it moves while the thread is inside a call that     *)
(* blocks (read, write_all, the report's writes); the code between two     *)
(* such calls is taken to run within one tick.                             *)
(*                                                                         *)
(* Numbers.  f64 values are modelled exactly: a float is NaN, +infinity or *)
(* a non-negative rational ip + fn/fd, where ip is an unbounded natural    *)
(* kept as a little-endian sequence of base-1024 digits (TLC's integers    *)
(* are 32 bits wide and the TB threshold is 2^40) and fn/fd is a reduced   *)
(* fraction in [0,1).  A write!/writeln! call is modelled as one token     *)
(* carrying the arguments handed to the formatter.                         *)
(***************************************************************************)
EXTENDS Integers, Sequences, FiniteSets, TLC

\* ----------------------------------------------------------------- bounds
\* Largest buffer size and iteration count given on the command line.
MaxBuf == 1
MaxIter == 2
\* Longest input stream, in bytes.
MaxInput == 3
\* Reads that may fail with an I/O error in one run.
MaxErrs == 1
\* The clock counts ticks of 1/TicksPerSec second, up to MaxTime ticks after
\* measure_reader's first timestamp.
TicksPerSec == 2
MaxTime == 4
\* A report's write may fail at any of its first MaxFail writes.
MaxFail == 3
\* Digits (base 1024) of the probes handed to byte_to_mem_units in UnitSpec.
MaxDigits == 6

\* ------------------------------------------------------ program constants
DEFAULT_BUFFER_SIZE == 4096
DEFAULT_ITERATION_COUNT == 1
\* The factor between two memory units (const KB: f64 = 1024.0); also the
\* radix of the digit sequences below.
Kilo == 1024
\* print_fixed_width's column count and the byte lengths of the three labels.
Columns == 24
LenDataTransferred == 17
LenTransferSpeed == 15
LenAverageSpeed == 23
\* term_move_up's argument in print_info.
MoveUpLines == 3

Min(a, b) == IF a <= b THEN a ELSE b

\* ------------------------------------------------- unbounded naturals (ip)
RECURSIVE WNorm(_)
\* Drop the high-order zero digits.
WNorm(s) == IF s = <<>> THEN <<>>
            ELSE IF s[Len(s)] = 0 THEN WNorm(SubSeq(s, 1, Len(s) - 1))
            ELSE s

RECURSIVE WFromNat(_)
WFromNat(n) == IF n = 0 THEN <<>> ELSE <<n % Kilo>> \o WFromNat(n \div Kilo)

RECURSIVE WAddC(_, _, _)
WAddC(a, b, c) ==
    IF a = <<>> /\ b = <<>> THEN (IF c = 0 THEN <<>> ELSE <<c>>)
    ELSE LET da == IF a = <<>> THEN 0 ELSE Head(a)
             db == IF b = <<>> THEN 0 ELSE Head(b)
             s  == da + db + c
         IN  <<s % Kilo>> \o WAddC(IF a = <<>> THEN <<>> ELSE Tail(a),
                                   IF b = <<>> THEN <<>> ELSE Tail(b),
                                   s \div Kilo)

WAdd(a, b) == WAddC(a, b, 0)

RECURSIVE WGeqFrom(_, _, _)
WGeqFrom(a, b, i) ==
    IF i = 0 THEN TRUE
    ELSE IF a[i] # b[i] THEN a[i] > b[i]
    ELSE WGeqFrom(a, b, i - 1)

\* a >= b
WGeq(a, b) == \/ Len(a) > Len(b)
              \/ Len(a) = Len(b) /\ WGeqFrom(a, b, Len(a))

RECURSIVE WDivFrom(_, _, _, _)
\* Long division of the digits 1..i of a, with carry r, by the small k.
WDivFrom(a, k, i, r) ==
    IF i = 0 THEN [q |-> <<>>, r |-> r]
    ELSE LET cur == r * Kilo + a[i]
             low == WDivFrom(a, k, i - 1, cur % k)
         IN  [q |-> Append(low.q, cur \div k), r |-> low.r]

WDivMod(a, k) == LET d == WDivFrom(a, k, Len(a), 0)
                 IN  [q |-> WNorm(d.q), r |-> d.r]

\* Quotient and remainder of a by Kilo^e.
WShr(a, e) == SubSeq(a, e + 1, Len(a))
WLow(a, e) == WNorm(SubSeq(a, 1, Min(e, Len(a))))
WShl(a, e) == IF a = <<>> THEN <<>> ELSE [i \in 1..e |-> 0] \o a

\* ------------------------------------------------------------------ floats
RECURSIVE Gcd(_, _)
Gcd(a, b) == IF b = 0 THEN a ELSE Gcd(b, a % b)

FNaN == [k |-> "nan", ip |-> <<>>, fn |-> 0, fd |-> 1]
FInf == [k |-> "inf", ip |-> <<>>, fn |-> 0, fd |-> 1]
\* The float w + n/d, for a natural w (digits) and naturals n, d with d > 0.
FMake(w, n, d) ==
    LET g  == Gcd(n % d, d)
    IN  [k |-> "fin", ip |-> WAdd(w, WFromNat(n \div d)),
         fn |-> (n % d) \div g, fd |-> d \div g]
FZero == FMake(<<>>, 0, 1)

\* `n as f64` for a usize n.
FromUsize(n) == FMake(WFromNat(n), 0, 1)

\* a + b in f64: NaN is absorbing, then +infinity.
FAdd(a, b) ==
    IF a.k = "nan" \/ b.k = "nan" THEN FNaN
    ELSE IF a.k = "inf" \/ b.k = "inf" THEN FInf
    ELSE FMake(WAdd(a.ip, b.ip), a.fn * b.fd + b.fn * a.fd, a.fd * b.fd)

\* a / (n as f64) for n >= 1
FDivNat(a, n) ==
    IF a.k # "fin" THEN a
    ELSE LET d == WDivMod(a.ip, n)
         IN  FMake(d.q, d.r * a.fd + a.fn, a.fd * n)

\* a >= t for a float a and a natural t (digits); every comparison with NaN
\* is false.
FGeq(a, t) ==
    CASE a.k = "nan" -> FALSE
      [] a.k = "inf" -> TRUE
      [] OTHER       -> WGeq(a.ip, t)

\* --------------------------------------------------------- pure functions
\* The thresholds of byte_to_mem_units: KB, and each next one 1024 times the
\* one before.
KB == WFromNat(Kilo)
MB == WShl(KB, 1)
GB == WShl(MB, 1)
TB == WShl(GB, 1)

\* bytes / t for a threshold t = Kilo^e: the quotient q and what is left of
\* bytes below t (the natural r plus the fraction fn/fd), so that the f64
\* returned is q + (r + fn/fd) / t.
MemDiv(bytes, t, unit) ==
    IF bytes.k # "fin"
    THEN [k |-> bytes.k, q |-> <<>>, r |-> <<>>, fn |-> 0, fd |-> 1, unit |-> unit]
    ELSE [k |-> "fin", q |-> WShr(bytes.ip, Len(t) - 1),
          r |-> WLow(bytes.ip, Len(t) - 1),
          fn |-> bytes.fn, fd |-> bytes.fd, unit |-> unit]

\* (bytes, "Bytes"): the value as it is.
MemSame(bytes) ==
    [k |-> bytes.k, q |-> bytes.ip, r |-> <<>>,
     fn |-> bytes.fn, fd |-> bytes.fd, unit |-> "Bytes"]

\* A faulty byte_to_mem_units: the thresholds are tried from the smallest.
byte_to_mem_units_ascending(bytes) ==
    IF FGeq(bytes, KB) THEN MemDiv(bytes, KB, "KB")
    ELSE IF FGeq(bytes, MB) THEN MemDiv(bytes, MB, "MB")
    ELSE IF FGeq(bytes, GB) THEN MemDiv(bytes, GB, "GB")
    ELSE IF FGeq(bytes, TB) THEN MemDiv(bytes, TB, "TB")
    ELSE MemSame(bytes)

byte_to_mem_units(bytes) ==
    IF FGeq(bytes, TB) THEN MemDiv(bytes, TB, "TB")
    ELSE IF FGeq(bytes, GB) THEN MemDiv(bytes, GB, "GB")
    ELSE IF FGeq(bytes, MB) THEN MemDiv(bytes, MB, "MB")
    ELSE IF FGeq(bytes, KB) THEN MemDiv(bytes, KB, "KB")
    ELSE MemSame(bytes)

\* Duration::as_secs and Duration::subsec_nanos of a duration of d ticks (the
\* latter in ticks: subsec_nanos / 1e9 = SubsecTicks / TicksPerSec).
as_secs(d) == d \div TicksPerSec
SubsecTicks(d) == d % TicksPerSec

\* bytes_read as f64 / duration_seconds; x / 0.0 is +infinity, 0.0 / 0.0 NaN.
bytes_per_second(bytes_read, d) ==
    LET dsTicks == as_secs(d) * TicksPerSec + SubsecTicks(d)
    IN  IF dsTicks = 0
        THEN (IF bytes_read = 0 THEN FNaN ELSE FInf)
        ELSE FMake(<<>>, bytes_read * TicksPerSec, dsTicks)

\* ------------------------------------------------------------------- state
VARIABLES
    args,           \* the command line: what clap's matches hold
    input,          \* the bytes the source will deliver before end-of-data
    pos,            \* how many of them the source has delivered
    errs,           \* reads that failed so far
    now,            \* the wall clock, in ticks
    pc,             \* the program's position
    source,         \* "none", "stdin" or "tcp"
    buffer_size, iterations, passthrough,
    buffer,         \* the part of the Vec written so far (the rest is zero)
    bytes_read,     \* Ok(bytes_read) of the read just done
    it,             \* iterations of the for loop begun in this pass
    end_loop,
    last_measured, measure_end, duration,
    transfer_info,
    stdout, stderr, \* what was written to each stream, as tokens
    readLog,        \* history: each read's result, -1 for an I/O error
    history,        \* history: one record per report begun
    longCheck,      \* history: an interval check before end-of-data saw a
                    \* full second elapsed
    unit_in, unit_out   \* UnitSpec: byte_to_mem_units's argument and result

vars == <<args, input, pos, errs, now, pc, source, buffer_size,
          iterations, passthrough, buffer, bytes_read, it, end_loop,
          last_measured, measure_end, duration, transfer_info, stdout,
          stderr, readLog, history, longCheck, unit_in, unit_out>>

\* What measure_reader's steps leave alone.
configVars == <<args, input, source, buffer_size, iterations, passthrough,
                unit_in, unit_out>>

\* An option that takes a number: not given, given and unparseable, or v.
NumArgs(max) == {[p |-> "absent", v |-> 0], [p |-> "bad", v |-> 0]}
                \cup {[p |-> "ok", v |-> n] : n \in 0..max}
ArgSet == [address : {"absent", "ok", "bad"}, port : {"absent", "ok", "bad"},
           buffer_size : NumArgs(MaxBuf), iterations : NumArgs(MaxIter),
           pass : BOOLEAN]

\* The input bytes are numbered, so that a byte dropped, repeated, moved or
\* replaced shows; the buffer's initial zeros are none of them.
InputOf(n) == [i \in 1..n |-> i]

\* #[derive(Default)] TransferInfo
TransferInfoDefault ==
    [total_bytes_transferred |-> 0, total_measures |-> 0, total_bps |-> FZero,
     last_bps |-> FZero, last_bytes_transferred |-> 0]

NoMem == [k |-> "none", q |-> <<>>, r |-> <<>>, fn |-> 0, fd |-> 1, unit |-> "none"]

Halted == {"done", "exit1", "panic"}

\* Everything but the command line, the input and the position.
Blank ==
    /\ pos = 0 /\ errs = 0 /\ now = 0
    /\ source = "none" /\ buffer_size = 0 /\ iterations = 0
    /\ passthrough = FALSE
    /\ buffer = <<>> /\ bytes_read = 0 /\ it = 0 /\ end_loop = FALSE
    /\ last_measured = 0 /\ measure_end = 0 /\ duration = 0
    /\ transfer_info = TransferInfoDefault
    /\ stdout = <<>> /\ stderr = <<>> /\ readLog = <<>> /\ history = <<>>
    /\ longCheck = FALSE

Init ==
    /\ args \in ArgSet
    /\ input \in {InputOf(n) : n \in 0..MaxInput}
    /\ pc = "main"
    /\ Blank
    /\ unit_in = FZero /\ unit_out = NoMem

\* ------------------------------------------------------------------ tokens
DataTok(b) == [k |-> "data", b |-> b]
LineTok(m) == [k |-> "line", msg |-> m]
Lines(msgs, n) == [i \in 1..n |-> LineTok(msgs[i])]

\* buffer[i], counting from 1: zero where nothing was read yet.
BufferAt(i) == IF i <= Len(buffer) THEN buffer[i] ELSE 0
\* &buffer[0..n]
BufferSlice(n) == [i \in 1..n |-> BufferAt(i)]

\* How many bytes the source still holds.
Remaining == Len(input) - pos

\* ------------------------------------------------------------- fatal paths
\* print_err!(..)* ; exit_err(), after `sofar` was written to stderr: each
\* line is a writeln! to stderr, which panics when the write fails; after
\* the last one the process exits with status 1.  f = 0: every write
\* succeeds; f > 0: the f-th write fails.
PrintErrExit(sofar, msgs) ==
    \E f \in 0..Len(msgs) :
       IF f = 0
       THEN stderr' = sofar \o Lines(msgs, Len(msgs)) /\ pc' = "exit1"
       ELSE stderr' = sofar \o Lines(msgs, f - 1) /\ pc' = "panic"

\* ------------------------------------------------------------------- main
\* A faulty ConfigError: the port's value is not checked.
ConfigErrorPortUnchecked(a) ==
    IF a.buffer_size.p = "bad" THEN "Buffer size must be a valid number."
    ELSE IF a.iterations.p = "bad" THEN "Iterations must be a valid number."
    ELSE IF (a.address # "absent" \/ a.port # "absent") /\ a.port = "absent"
         THEN "A port must be speicified alongside a address."
    ELSE "none"

\* A faulty ConfigError: an address without a port passes.
ConfigErrorPortOptional(a) ==
    IF a.buffer_size.p = "bad" THEN "Buffer size must be a valid number."
    ELSE IF a.iterations.p = "bad" THEN "Iterations must be a valid number."
    ELSE IF a.port = "bad" THEN "Port must be a valid number from 0 to 65535"
    ELSE "none"

\* The first configuration error main meets, in its order of checks, or
\* "none".
ConfigError(a) ==
    IF a.buffer_size.p = "bad" THEN "Buffer size must be a valid number."
    ELSE IF a.iterations.p = "bad" THEN "Iterations must be a valid number."
    ELSE IF (a.address # "absent" \/ a.port # "absent") /\ a.port = "absent"
         THEN "A port must be speicified alongside a address."
    ELSE IF a.port = "bad" THEN "Port must be a valid number from 0 to 65535"
    ELSE "none"

\* Lines 103-149: the options are read; a configuration error is printed
\* and ends the process, otherwise the source is chosen.
Main ==
    /\ pc = "main"
    /\ passthrough' = args.pass
    /\ buffer_size' = IF args.buffer_size.p = "ok" THEN args.buffer_size.v
                      ELSE DEFAULT_BUFFER_SIZE
    /\ iterations' = IF args.iterations.p = "ok" THEN args.iterations.v
                     ELSE DEFAULT_ITERATION_COUNT
    /\ IF ConfigError(args) # "none"
       THEN /\ PrintErrExit(stderr, <<ConfigError(args)>>)
            /\ source' = "none"
       ELSE /\ UNCHANGED stderr
            /\ IF args.address # "absent" \/ args.port # "absent"
               THEN pc' = "tcp_bind" /\ source' = "tcp"
               ELSE pc' = "reader" /\ source' = "stdin"
    /\ UNCHANGED <<args, input, unit_in, unit_out, pos, errs, now, buffer,
                   bytes_read, it, end_loop, last_measured, measure_end,
                   duration, transfer_info, stdout, readLog, history, longCheck>>

\* println! to stdout: the lines written, or a panic at the f-th of them.
Println(lines, f, okpc) ==
    IF f = 0
    THEN stdout' = stdout \o Lines(lines, Len(lines)) /\ pc' = okpc
    ELSE stdout' = stdout \o Lines(lines, f - 1) /\ pc' = "panic"

\* measure_tcp_stream up to the bind (lines 153-165, 181-185): the address
\* is parsed, the listener bound and "Listening at" printed.
TcpBind ==
    /\ pc = "tcp_bind"
    /\ \/ /\ args.address = "bad"
          /\ PrintErrExit(stderr, <<"Bad IP address">>)
          /\ UNCHANGED stdout
       \/ /\ args.address # "bad"
          /\ \/ /\ PrintErrExit(stderr,
                       <<"There was an error connecting to", "ERROR:">>)
                /\ UNCHANGED stdout
             \/ /\ \E f \in 0..1 : Println(<<"Listening at">>, f, "tcp_accept")
                /\ UNCHANGED stderr
    /\ UNCHANGED <<configVars, pos, errs, now, buffer, bytes_read, it,
                   end_loop, last_measured, measure_end, duration,
                   transfer_info, readLog, history, longCheck>>

\* listener.accept() and the two lines printed before measure_reader (lines
\* 166-178).
TcpAccept ==
    /\ pc = "tcp_accept"
    /\ \/ /\ PrintErrExit(stderr,
                 <<"There was an error accepting a connection.", "ERROR:">>)
          /\ UNCHANGED stdout
       \/ /\ \E f \in 0..2 :
                Println(<<"Reading incoming data from", "">>, f, "reader")
          /\ UNCHANGED stderr
    /\ UNCHANGED <<configVars, pos, errs, now, buffer, bytes_read, it,
                   end_loop, last_measured, measure_end, duration,
                   transfer_info, readLog, history, longCheck>>

\* ---------------------------------------------------------- measure_reader
\* Lines 195-209: the buffer, the first timestamp, the zeroed statistics,
\* and the first pass of the loop begins.
ReaderStart ==
    /\ pc = "reader"
    /\ buffer' = <<>>
    /\ last_measured' = now
    /\ transfer_info' = TransferInfoDefault
    /\ end_loop' = FALSE
    /\ it' = 0
    /\ pc' = "for"
    /\ UNCHANGED <<configVars, pos, errs, now, bytes_read, measure_end,
                   duration, stdout, stderr, readLog, history, longCheck>>

\* The byte counts a blocking read into a buffer of buffer_size bytes may
\* return: zero only at end-of-data or for an empty buffer.
ReadCounts ==
    IF Min(buffer_size, Remaining) = 0 THEN {0}
    ELSE 1..Min(buffer_size, Remaining)

\* A faulty AfterRead: no break after a zero-byte read.
AfterReadNoBreak(n) ==
    IF n > 0 /\ passthrough THEN "write" ELSE "for"

\* A faulty AfterRead: the passthrough write is skipped.
AfterReadNoWrite(n) == IF n = 0 THEN "measure" ELSE "for"

\* Where Ok(n) leads: the break, the passthrough write, or the next
\* iteration.
AfterRead(n) ==
    IF n = 0 THEN "measure" ELSE IF passthrough THEN "write" ELSE "for"

\* end_loop after Ok(n)
EndLoopAfter(n) == IF n = 0 THEN TRUE ELSE end_loop

\* A faulty CountBytes: the interval's count restarts at every read.
CountBytesRestart(ti, n) ==
    [ti EXCEPT !.last_bytes_transferred = n,
               !.total_bytes_transferred = @ + n]

\* A faulty CountBytes: the interval's bytes are counted, the total is not.
CountBytesNoTotal(ti, n) ==
    [ti EXCEPT !.last_bytes_transferred = @ + n]

\* The counters after Ok(n): lines 212-213.
CountBytes(ti, n) ==
    [ti EXCEPT !.last_bytes_transferred = @ + n,
               !.total_bytes_transferred = @ + n]

\* reader.read(&mut buffer) returns Ok(bytes_read): lines 210-217, up to the
\* passthrough write.
ReadOk ==
    /\ pc = "for" /\ it < iterations
    /\ \E n \in ReadCounts :
          /\ buffer' = [i \in 1..n |-> input[pos + i]]
                          \o SubSeq(buffer, n + 1, Len(buffer))
          /\ pos' = pos + n
          /\ bytes_read' = n
          /\ transfer_info' = CountBytes(transfer_info, n)
          /\ end_loop' = EndLoopAfter(n)
          /\ pc' = AfterRead(n)
          /\ readLog' = Append(readLog, n)
    /\ it' = it + 1
    /\ UNCHANGED <<configVars, errs, now, last_measured, measure_end,
                   duration, stdout, stderr, history, longCheck>>

\* reader.read(&mut buffer) returns Err(err); line 226 is about to log it.
ReadErr ==
    /\ pc = "for" /\ it < iterations
    /\ errs < MaxErrs
    /\ errs' = errs + 1
    /\ it' = it + 1
    /\ pc' = "log_read_err"
    /\ readLog' = Append(readLog, -1)
    /\ UNCHANGED <<configVars, pos, now, buffer, bytes_read, end_loop,
                   last_measured, measure_end, duration, transfer_info,
                   stdout, stderr, history, longCheck>>

\* A faulty LogReadErr: the read error ends the process.
LogReadErrFatal ==
    /\ pc = "log_read_err"
    /\ PrintErrExit(stderr, <<"Error while reading into buffer:">>)
    /\ UNCHANGED <<configVars, pos, errs, now, buffer, bytes_read, it,
                   end_loop, last_measured, measure_end, duration,
                   transfer_info, stdout, readLog, history, longCheck>>

\* print_err_into!(locked_error, "Error while reading into buffer: {}", err):
\* the line is written, or the macro panics.
LogReadErr ==
    /\ pc = "log_read_err"
    /\ \/ /\ stderr' = Append(stderr, LineTok("Error while reading into buffer:"))
          /\ pc' = "for"
       \/ /\ pc' = "panic"
          /\ UNCHANGED stderr
    /\ UNCHANGED <<configVars, pos, errs, now, buffer, bytes_read, it,
                   end_loop, last_measured, measure_end, duration,
                   transfer_info, stdout, readLog, history, longCheck>>

\* A faulty PassBytes: the whole buffer, stale bytes included.
PassBytesWholeBuffer == BufferSlice(Len(buffer))

\* What write_all is handed.
PassBytes == BufferSlice(bytes_read)
DataToks(bytes, n) == [i \in 1..n |-> DataTok(bytes[i])]

\* A faulty WritePass: a failed write_all is passed over and the loop goes
\* on.
WritePassGoesOn ==
    /\ pc = "write"
    /\ \E j \in 0..Len(PassBytes) : stdout' = stdout \o DataToks(PassBytes, j)
    /\ pc' = "for"
    /\ UNCHANGED <<configVars, pos, errs, now, buffer, bytes_read, it,
                   end_loop, last_measured, measure_end, duration,
                   transfer_info, stderr, readLog, history, longCheck>>

\* Lines 218-221: locked_output.write_all(&buffer[0..bytes_read]) writes
\* all of it, or fails after the first j bytes; the failure is printed and
\* the process exits.
WritePass ==
    /\ pc = "write"
    /\ \/ /\ stdout' = stdout \o DataToks(PassBytes, Len(PassBytes))
          /\ pc' = "for"
          /\ UNCHANGED stderr
       \/ \E j \in 0..(Len(PassBytes) - 1) :
             /\ stdout' = stdout \o DataToks(PassBytes, j)
             /\ PrintErrExit(stderr, <<"Error while writing buffer into stdout:">>)
    /\ UNCHANGED <<configVars, pos, errs, now, buffer, bytes_read, it,
                   end_loop, last_measured, measure_end, duration,
                   transfer_info, readLog, history, longCheck>>

\* The for loop has run its iterations.
ForDone ==
    /\ pc = "for" /\ it >= iterations
    /\ pc' = "measure"
    /\ UNCHANGED <<configVars, pos, errs, now, buffer, bytes_read, it,
                   end_loop, last_measured, measure_end, duration,
                   transfer_info, stdout, stderr, readLog, history, longCheck>>

\* Faulty forms of ReportDue: end-of-data does not count; any elapsed time
\* counts; every check reports.
ReportDueTimeOnly(d, e) == as_secs(d) > 0
ReportDueAnyTime(d, e) == d > 0 \/ e
ReportDueAlways(d, e) == TRUE

\* duration.as_secs() > 0 || end_loop
ReportDue(d, e) == as_secs(d) > 0 \/ e

\* A faulty Accumulate: the sum of rates is overwritten by the last rate.
AccumulateOverwrite(ti, bps) ==
    [ti EXCEPT !.last_bps = bps,
               !.total_measures = @ + 1,
               !.total_bps = bps]

\* Lines 234-236: the interval's rate, one more measure, the rate added to
\* the sum.
Accumulate(ti, bps) ==
    [ti EXCEPT !.last_bps = bps,
               !.total_measures = @ + 1,
               !.total_bps = FAdd(@, bps)]

\* Lines 231-236: the interval check.  history gets the report's interval.
Measure ==
    /\ pc = "measure"
    /\ measure_end' = now
    /\ duration' = now - last_measured
    /\ longCheck' = (longCheck \/ (~end_loop /\ duration' >= TicksPerSec))
    /\ IF ReportDue(duration', end_loop)
       THEN LET bps == bytes_per_second(transfer_info.last_bytes_transferred,
                                        duration')
            IN  /\ transfer_info' = Accumulate(transfer_info, bps)
                /\ history' = Append(history,
                       [bps |-> bps,
                        bytes |-> transfer_info.last_bytes_transferred,
                        dur |-> duration', eof |-> end_loop, at |-> now,
                        printed |-> FALSE])
                /\ pc' = "print"
       ELSE /\ pc' = "loopend"
            /\ UNCHANGED <<transfer_info, history>>
    /\ UNCHANGED <<configVars, pos, errs, now, buffer, bytes_read, it,
                   end_loop, last_measured, stdout, stderr, readLog>>

\* One write of print_info: the token written and what its failure does
\* ("err": print_info returns Err through `?`; "panic": print_fixed_width
\* panics).
W(tok, onfail) == [tok |-> tok, onfail |-> onfail]

\* print_fixed_width(output, text, columns), for a text of len bytes: the
\* text and its padding spaces, one token for the call.
print_fixed_width(text, len, columns) ==
    <<W([k |-> "label", text |-> text,
         pad |-> IF len < columns THEN columns - len ELSE 0], "panic")>>

term_clear_line == <<W([k |-> "clear"], "err")>>
term_move_up(lines) == <<W([k |-> "up", n |-> lines], "err")>>

\* A faulty MovesUp: the first report moves the cursor up too.
MovesUpFromFirst(ti) == ti.total_measures > 0

\* Whether print_info first moves the cursor up.
MovesUp(ti) == ti.total_measures > 1

\* print_info's writes, in order.
print_info(ti) ==
    (IF MovesUp(ti) THEN term_move_up(MoveUpLines) ELSE <<>>)
    \o print_fixed_width("Data Transferred:", LenDataTransferred, Columns)
    \o <<W([k |-> "total",
            mem |-> byte_to_mem_units(FromUsize(ti.total_bytes_transferred)),
            cycles |-> ti.total_measures], "err")>>
    \o term_clear_line
    \o print_fixed_width("Transfer Speed:", LenTransferSpeed, Columns)
    \o <<W([k |-> "speed", mem |-> byte_to_mem_units(ti.last_bps)], "err")>>
    \o term_clear_line
    \o print_fixed_width("Average Transfer Speed:", LenAverageSpeed, Columns)
    \o <<W([k |-> "average",
            mem |-> byte_to_mem_units(FDivNat(ti.total_bps, ti.total_measures))],
           "err")>>
    \o term_clear_line

\* The stream print_info is given: locked_error in passthrough, else
\* locked_output.
ReportSink == IF passthrough THEN "stderr" ELSE "stdout"

\* Lines 238-250: the report is written.  f = 0: every write succeeds;
\* f > 0: the f-th write fails, and either print_fixed_width panics or the
\* error is printed and the process exits.
PrintInfo ==
    /\ pc = "print"
    /\ LET w == print_info(transfer_info)
       IN  \E f \in 0..Min(Len(w), MaxFail) :
             LET toks == [i \in 1..(IF f = 0 THEN Len(w) ELSE f - 1) |-> w[i].tok]
                 out  == IF ReportSink = "stderr" THEN stderr \o toks
                                                  ELSE stdout \o toks
                 err  == IF ReportSink = "stderr" THEN out ELSE stderr
             IN  /\ stdout' = IF ReportSink = "stderr" THEN stdout ELSE out
                 /\ IF f = 0
                    THEN /\ pc' = "reset"
                         /\ stderr' = err
                         /\ history' = [history EXCEPT ![Len(history)].printed = TRUE]
                    ELSE /\ UNCHANGED history
                         /\ IF w[f].onfail = "panic"
                            THEN pc' = "panic" /\ stderr' = err
                            ELSE PrintErrExit(err, <<"Error while printing output:">>)
    /\ UNCHANGED <<configVars, pos, errs, now, buffer, bytes_read, it,
                   end_loop, last_measured, measure_end, duration,
                   transfer_info, readLog, longCheck>>

\* A faulty ResetStats: the interval's byte count is kept.
ResetStatsKeepBytes(ti) == [ti EXCEPT !.last_bps = FZero]

\* Lines 253-254: the interval's rate and byte count are zeroed.
ResetStats(ti) == [ti EXCEPT !.last_bps = FZero,
                             !.last_bytes_transferred = 0]

\* A faulty NextLastMeasured: the clock is read again after the report.
NextLastMeasuredNow == now

\* Line 252: the timestamp the next interval starts from.
NextLastMeasured == measure_end

\* Lines 252-254.
Reset ==
    /\ pc = "reset"
    /\ last_measured' = NextLastMeasured
    /\ transfer_info' = ResetStats(transfer_info)
    /\ pc' = "loopend"
    /\ UNCHANGED <<configVars, pos, errs, now, buffer, bytes_read, it,
                   end_loop, measure_end, duration, stdout, stderr, readLog,
                   history, longCheck>>

\* Line 257 and the loop's next pass (lines 207-209): measure_reader returns
\* (and main after it), or end_loop is false again and the for loop restarts.
LoopEnd ==
    /\ pc = "loopend"
    /\ IF end_loop
       THEN pc' = "done" /\ UNCHANGED <<end_loop, it>>
       ELSE pc' = "for" /\ end_loop' = FALSE /\ it' = 0
    /\ UNCHANGED <<configVars, pos, errs, now, buffer, bytes_read,
                   last_measured, measure_end, duration, transfer_info,
                   stdout, stderr, readLog, history, longCheck>>

\* The positions at which the thread is inside a blocking call, or about to
\* make one.
Blocking == {"for", "write", "print"}

\* The wall clock moves.
Tick ==
    /\ pc \in Blocking
    /\ now < MaxTime
    /\ now' = now + 1
    /\ UNCHANGED <<configVars, pos, errs, pc, buffer, bytes_read, it,
                   end_loop, last_measured, measure_end, duration,
                   transfer_info, stdout, stderr, readLog, history, longCheck>>

\* One step of the program.
Step ==
    \/ Main
    \/ TcpBind
    \/ TcpAccept
    \/ ReaderStart
    \/ ReadOk
    \/ ReadErr
    \/ LogReadErr
    \/ WritePass
    \/ ForDone
    \/ Measure
    \/ PrintInfo
    \/ Reset
    \/ LoopEnd

Next == Step \/ Tick

Spec == Init /\ [][Next]_vars

\* The thread is always scheduled: a step that can be taken is taken.
FairSpec == Spec /\ WF_vars(Step)

\* ------------------------------------------- byte_to_mem_units on its own
\* The digits a probe is made of: the least, the next and the greatest.
ProbeDigits == {0, 1, Kilo - 1}

RECURSIVE DigitSeqs(_)
\* The digit sequences of length n over ProbeDigits.
DigitSeqs(n) ==
    IF n = 0 THEN {<<>>}
    ELSE {Append(s, d) : s \in DigitSeqs(n - 1), d \in ProbeDigits}

\* The naturals probed: up to MaxDigits digits, the highest not zero.
ProbeNats == {w \in UNION {DigitSeqs(n) : n \in 0..MaxDigits} : WNorm(w) = w}

\* The floats probed: those naturals, alone and with a half added, and
\* +infinity and NaN.
Probes == {FMake(w, n, 2) : w \in ProbeNats, n \in {0, 1}} \cup {FInf, FNaN}

NoArgs == [address |-> "absent", port |-> "absent",
           buffer_size |-> [p |-> "absent", v |-> 0],
           iterations |-> [p |-> "absent", v |-> 0], pass |-> FALSE]

UnitInit ==
    /\ args = NoArgs
    /\ input = <<>>
    /\ pc = "unit_call"
    /\ Blank
    /\ unit_in \in Probes
    /\ unit_out = NoMem

\* byte_to_mem_units(unit_in) is called and returns.
UnitApply ==
    /\ pc = "unit_call"
    /\ unit_out' = byte_to_mem_units(unit_in)
    /\ pc' = "unit_ret"
    /\ UNCHANGED <<args, input, pos, errs, now, source, buffer_size,
                   iterations, passthrough, buffer, bytes_read, it, end_loop,
                   last_measured, measure_end, duration, transfer_info,
                   stdout, stderr, readLog, history, longCheck, unit_in>>

UnitNext == UnitApply

UnitSpec == UnitInit /\ [][UnitNext]_vars

\* ----------------------------------------------------- history operators
RECURSIVE SumOk(_)
\* The bytes the successful reads of a log returned, added up.
SumOk(log) ==
    IF log = <<>> THEN 0
    ELSE (IF Head(log) >= 0 THEN Head(log) ELSE 0) + SumOk(Tail(log))

\* The tokens of kind k in a stream.
OfKind(stream, k) == SelectSeq(stream, LAMBDA t : t.k = k)

\* The stream the run's configuration sends reports to.
ReportStream == IF passthrough THEN stderr ELSE stdout

\* The program is inside measure_reader, or has returned from it.
InReader == pc \in {"for", "log_read_err", "write", "measure", "print",
                    "reset", "loopend", "done"}

IsPrefix(s, t) == Len(s) <= Len(t) /\ s = SubSeq(t, 1, Len(s))

\* -------------------------------------------------------------- properties

\* C1: when measure_reader returns, total_bytes_transferred is the sum of
\* the byte counts its successful reads returned (failed reads add nothing)
\* and the last report printed shows that total; with a buffer of at least
\* one byte the sum is every byte of the input.  At every moment before,
\* the total is the sum so far.
C1_TotalIsSumOfReads ==
    /\ transfer_info.total_bytes_transferred = SumOk(readLog)
    /\ pc = "done" =>
          LET shown == OfKind(ReportStream, "total")
          IN  /\ buffer_size >= 1 =>
                    transfer_info.total_bytes_transferred = Len(input)
              /\ shown # <<>>
              /\ shown[Len(shown)].mem
                    = byte_to_mem_units(FromUsize(SumOk(readLog)))

\* A run that returned after several reads, one of them failed.
C1_Witness ==
    /\ pc = "done"
    /\ buffer_size >= 1 /\ iterations >= 1
    /\ \E i \in 1..Len(readLog) : readLog[i] = -1
    /\ Cardinality({i \in 1..Len(readLog) : readLog[i] > 0}) >= 2
    /\ SumOk(readLog) = MaxInput

\* The reads that returned zero bytes, and the reports end-of-data caused.
ZeroReads == {i \in 1..Len(readLog) : readLog[i] = 0}
EofReports == {i \in 1..Len(history) : history[i].eof}

\* C2: once a read has returned zero bytes, the next interval check begins
\* exactly one report, whatever time has passed since the report before;
\* once that report is written the only step left is the return, and
\* measure_reader returns in no other way.  No second report follows.  (The
\* one other end of such a run is a failed write of that report, which halts
\* the process.)
C2_OneFinalReport ==
    /\ Cardinality(EofReports) <= 1
    /\ ZeroReads = {} => EofReports = {} /\ pc # "done"
    /\ (ZeroReads # {} /\ pc # "measure") =>
          /\ EofReports = {Len(history)}
          /\ pc \in {"print", "reset", "loopend", "done", "exit1", "panic"}
          /\ history[Len(history)].printed
                = (pc \in {"reset", "loopend", "done"})
    /\ (ZeroReads # {} /\ pc = "measure") => EofReports = {}
    /\ (ZeroReads # {} /\ pc = "loopend") => ~ENABLED (Next /\ pc' # "done")

\* A run that returned after a final report less than a second after the
\* report before it.
C2_Witness ==
    /\ pc = "done"
    /\ Len(history) >= 2
    /\ history[Len(history)].dur < TicksPerSec
    /\ history[Len(history)].dur > 0

\* What measure_reader wrote to stdout: everything but the lines printed
\* before it started.
PassSink == SelectSeq(stdout, LAMBDA t : t.k # "line")

\* C3: in passthrough mode the data written to stdout is at every moment a
\* prefix of the bytes read so far, in their order and unchanged, and when
\* measure_reader returns it is all of them: the whole input, for a buffer
\* of at least one byte.
C3_PassthroughExact ==
    passthrough =>
       /\ \A i \in 1..Len(PassSink) : PassSink[i].k = "data"
       /\ LET bytes == [i \in 1..Len(PassSink) |-> PassSink[i].b]
          IN  /\ IsPrefix(bytes, SubSeq(input, 1, pos))
              /\ pc = "done" => /\ bytes = SubSeq(input, 1, pos)
                                /\ buffer_size >= 1 => bytes = input

\* A passthrough run that returned after reading the input in two reads of
\* different sizes, with a failed read and two reports on the way.
C3_Witness ==
    /\ passthrough /\ pc = "done"
    /\ \E i \in 1..Len(readLog) : readLog[i] = -1
    /\ \E i \in 1..Len(readLog) : readLog[i] = 2
    /\ \E i \in 1..Len(readLog) : readLog[i] = 1
    /\ Len(history) >= 2
    /\ Len(PassSink) = MaxInput

\* The kinds of token a report is made of.
ReportKinds == {"up", "label", "total", "speed", "average", "clear"}

\* C4: with passthrough, stdout carries nothing but the bytes read from the
\* source and every report token is on stderr; without it, no report token
\* is on stderr.
C4_StdoutOnlyData ==
    /\ passthrough =>
          /\ \A i \in 1..Len(stdout) : stdout[i].k = "data"
          /\ \A i \in 1..Len(stdout) : stdout[i].k \notin ReportKinds
    /\ ~passthrough =>
          \A i \in 1..Len(stderr) : stderr[i].k \notin ReportKinds

RECURSIVE SumRates(_)
\* The rates of the first k reports, added up from 0.0.
SumRates(k) == IF k = 0 THEN FZero ELSE FAdd(SumRates(k - 1), history[k].bps)

\* C5: total_measures is the number of reports begun and total_bps the sum
\* of their rates; the k-th report printed shows k cycles and, as its
\* average, the sum of the first k rates divided by k.
C5_MeanOfRates ==
    /\ transfer_info.total_measures = Len(history)
    /\ transfer_info.total_bps = SumRates(Len(history))
    /\ LET tot == OfKind(ReportStream, "total")
           avg == OfKind(ReportStream, "average")
       IN  /\ \A k \in 1..Len(tot) : tot[k].cycles = k
           /\ \A k \in 1..Len(avg) :
                 avg[k].mem = byte_to_mem_units(FDivNat(SumRates(k), k))

\* Two reports printed, of two different finite rates; the second average is
\* their mean.
C5_Witness ==
    /\ Len(OfKind(ReportStream, "average")) = 2
    /\ history[1].bps.k = "fin" /\ history[2].bps.k = "fin"
    /\ history[1].bps # history[2].bps
    /\ history[1].bps # FZero /\ history[2].bps # FZero

\* The step is a read that failed.
ReadFailed == /\ Len(readLog') = Len(readLog) + 1
              /\ readLog'[Len(readLog')] = -1

\* C6: a read that fails changes no counter, writes nothing to stdout and
\* leaves end_loop false; its error line is then written to stderr and the
\* for loop goes on: to its next read if iterations are left, else to the
\* interval check.  (If the error line itself cannot be written the macro
\* panics.)
C6_ReadErrorSkipped ==
    [][/\ ReadFailed =>
             /\ transfer_info' = transfer_info
             /\ stdout' = stdout
             /\ pos' = pos
             /\ ~end_loop /\ ~end_loop'
             /\ it' = it + 1
             /\ pc' = "log_read_err"
       /\ pc = "log_read_err" =>
             /\ transfer_info' = transfer_info
             /\ stdout' = stdout
             /\ ~end_loop'
             /\ it' = it
             /\ \/ pc' = "for" /\ Len(stderr') = Len(stderr) + 1
                \/ pc' = "panic" /\ stderr' = stderr
       /\ (pc = "for" /\ pc' # "for") =>
             IF it < iterations
             THEN Len(readLog') = Len(readLog) + 1
             ELSE pc' = "measure" /\ readLog' = readLog
      ]_vars

\* The first of two iterations failed after bytes had been counted, and the
\* for loop is about to read again.
C6_Witness ==
    /\ pc = "for" /\ it = 1 /\ iterations = 2
    /\ readLog # <<>> /\ readLog[Len(readLog)] = -1
    /\ transfer_info.total_bytes_transferred > 0
    /\ ~end_loop

\* C7: an interval check begins a report exactly when a full second has
\* passed since last_measured or end_loop is set; otherwise it writes
\* nothing and changes neither the statistics nor last_measured, and the
\* loop goes on.
C7_ReportGate ==
    [][/\ pc = "measure" =>
             /\ (pc' = "print") = (now - last_measured >= TicksPerSec \/ end_loop)
             /\ pc' # "print" =>
                   /\ pc' = "loopend"
                   /\ transfer_info' = transfer_info
                   /\ last_measured' = last_measured
                   /\ stdout' = stdout /\ stderr' = stderr
                   /\ history' = history
       /\ (pc = "loopend" /\ pc' = "for") =>
             /\ transfer_info' = transfer_info
             /\ last_measured' = last_measured
             /\ stdout' = stdout /\ stderr' = stderr
      ]_vars

\* A check found less than a second elapsed with bytes pending, and the loop
\* went on with them still counted.
C7_Witness ==
    /\ pc = "for" /\ it = 0
    /\ history = <<>>
    /\ now - last_measured > 0
    /\ duration = now - last_measured
    /\ transfer_info.last_bytes_transferred > 0
    /\ stdout = <<>> /\ stderr = <<>>

\* C8: for every configuration the command line accepts, a run whose source
\* is from some moment on at end-of-data (every byte of the input delivered)
\* ends: the process returns, exits or panics.  (A failed write ends the run
\* at once, so runs without one are not singled out.)
C8_RunTerminates == <>[](pos = Len(input)) => <>(pc \in Halted)

\* C9: while no interval check before end-of-data has seen a full second,
\* at most one report is begun, and end-of-data caused it; when such a run
\* returns, exactly one report was printed, showing one cycle and, as Data
\* Transferred, the byte count of the whole input.
C9_SingleFinalReport ==
    ~longCheck =>
       /\ Len(history) <= 1
       /\ \A i \in 1..Len(history) : history[i].eof
       /\ (pc = "done" /\ buffer_size >= 1) =>
             LET tot == OfKind(ReportStream, "total")
             IN  /\ Len(history) = 1
                 /\ Len(tot) = 1
                 /\ tot[1].cycles = 1
                 /\ tot[1].mem = byte_to_mem_units(FromUsize(Len(input)))
                 /\ Len(OfKind(ReportStream, "up")) = 0

\* The input was read in a larger and a smaller read and a zero-byte read,
\* time passed, and the run returned after its one report.
C9_Witness ==
    /\ pc = "done" /\ ~longCheck
    /\ readLog = <<2, 1, 0>>
    /\ now > 0
    /\ Len(history) = 1

\* Kilo^e as digits.
KiloPow(e) == [i \in 1..e |-> 0] \o <<1>>

\* The exponent of a unit's threshold.
UnitExp(u) == CASE u = "Bytes" -> 0 [] u = "KB" -> 1 [] u = "MB" -> 2
                [] u = "GB" -> 3 [] u = "TB" -> 4

\* C10: for a finite b >= 0, byte_to_mem_units returns the unit of the
\* largest threshold 1024^e (e = 1..4) that is <= b, or Bytes when b is
\* below 1024, and b divided by that threshold (by 1 for Bytes): quotient q
\* and remainder r + fn/fd with q * 1024^e + r = the whole part of b and
\* r below 1024^e.  Exactly 1024 gives 1 KB, and for 1024 <= b < 1024^4 the
\* value lies in [1, 1024).  +infinity gives infinity TB.
C10_UnitConversion ==
    (pc = "unit_ret" /\ unit_in.k # "nan") =>
       LET b == unit_in
           o == unit_out
           e == UnitExp(o.unit)
       IN  /\ o.unit \in {"Bytes", "KB", "MB", "GB", "TB"}
           /\ e >= 1 => FGeq(b, KiloPow(e))
           /\ e < 4 => ~FGeq(b, KiloPow(e + 1))
           /\ o.k = b.k
           /\ b.k = "fin" =>
                 /\ WAdd(WShl(o.q, e), o.r) = b.ip
                 /\ ~WGeq(o.r, KiloPow(e))
                 /\ o.fn = b.fn /\ o.fd = b.fd
                 /\ (b.ip = <<0, 1>> /\ b.fn = 0) =>
                       o.q = <<1>> /\ o.r = <<>> /\ o.unit = "KB"
                 /\ Len(b.ip) <= 1 => o.unit = "Bytes" /\ o.q = b.ip
                 /\ Len(b.ip) \in 2..4 =>
                       Len(o.q) = 1 /\ o.q[1] \in 1..(Kilo - 1)

\* 2047.5 bytes came back as 1 KB and a remainder of 1023.5 bytes.
C10_Witness ==
    /\ pc = "unit_ret"
    /\ unit_in = FMake(<<Kilo - 1, 1>>, 1, 2)
    /\ unit_out.unit = "KB" /\ unit_out.q = <<1>>
    /\ unit_out.r = <<Kilo - 1>> /\ unit_out.fn = 1 /\ unit_out.fd = 2

\* The command line holds a configuration error: a number, a port or an
\* address that does not parse, or an address without a port.
HasConfigError(a) ==
    \/ a.buffer_size.p = "bad" \/ a.iterations.p = "bad"
    \/ a.port = "bad" \/ a.address = "bad"
    \/ a.address # "absent" /\ a.port = "absent"

\* The line a configuration error is reported with.
ConfigErrorLine(a) ==
    IF a.buffer_size.p = "bad" THEN "Buffer size must be a valid number."
    ELSE IF a.iterations.p = "bad" THEN "Iterations must be a valid number."
    ELSE IF a.port = "absent"
         THEN "A port must be speicified alongside a address."
    ELSE IF a.port = "bad" THEN "Port must be a valid number from 0 to 65535"
    ELSE "Bad IP address"

\* C11: with a configuration error on the command line the program never
\* gets past the failing check: it is in main, or (only for an unparseable
\* address) at the start of measure_tcp_stream, or halted; nothing is read,
\* no report is begun, nothing is written to stdout (so no bind succeeded and
\* no connection was accepted), and its next step can only halt it.  Halted
\* by exit_err, stderr holds the one line of that error; if that line cannot
\* be written, print_err! panics instead.
C11_ConfigErrorExits ==
    HasConfigError(args) =>
       /\ pc \in {"main", "tcp_bind", "exit1", "panic"}
       /\ pc = "tcp_bind" => ConfigError(args) = "none"
       /\ readLog = <<>> /\ pos = 0 /\ history = <<>> /\ stdout = <<>>
       /\ transfer_info = TransferInfoDefault
       /\ pc = "exit1" => stderr = <<LineTok(ConfigErrorLine(args))>>
       /\ pc # "exit1" => stderr = <<>>
       /\ (pc = "main" /\ ConfigError(args) = "none") =>
             ~ENABLED (Next /\ pc' # "tcp_bind")
       /\ (pc = "tcp_bind" \/ (pc = "main" /\ ConfigError(args) # "none")) =>
             ~ENABLED (Next /\ pc' \notin {"exit1", "panic"})

\* A port that parses and an address that does not: the deepest of the
\* checks failed and the process exited.
C11_Witness ==
    /\ pc = "exit1"
    /\ args.address = "bad" /\ args.port = "ok"
    /\ args.buffer_size.p = "ok" /\ args.iterations.p = "ok"
    /\ stderr = <<LineTok("Bad IP address")>>

\* measure_reader was called: the sampling loop is running or has run.
SamplerStarted == pc = "reader" \/ InReader

\* main has chosen between its branches.
PastMain == pc # "main"

\* The numeric options parse or are absent.
NumbersOk(a) == a.buffer_size.p # "bad" /\ a.iterations.p # "bad"

C13_NoReadAfterZero ==
    /\ \A i \in 1..(Len(readLog) - 1) : readLog[i] # 0
    /\ ZeroReads # {} =>
          /\ end_loop
          /\ pc \in {"measure", "print", "reset", "loopend",
                     "done", "exit1", "panic"}
          /\ readLog[Len(readLog)] = 0

\* Two iterations a stage, and the zero-byte read was the first read of its
\* stage after a full stage of two reads: the second iteration was not run,
\* and the run returned.
C13_Witness ==
    /\ pc = "done"
    /\ iterations = 2 /\ it = 1
    /\ Len(readLog) = 3 /\ readLog[3] = 0

\* C14: in passthrough mode, whenever measure_reader is anywhere but at the
\* passthrough write (so at every read, every interval check and every
\* report) stdout has received exactly total_bytes_transferred bytes of
\* data; at the write it lacks exactly the bytes of the read just done,
\* which is not empty.
C14_WriteBeforeNext ==
    (passthrough /\ InReader) =>
       IF pc = "write"
       THEN /\ bytes_read > 0
            /\ Len(PassSink) + bytes_read
                  = transfer_info.total_bytes_transferred
       ELSE Len(PassSink) = transfer_info.total_bytes_transferred

\* A report about to be written on the clock's account, with the bytes of
\* two reads counted in it and already on stdout.
C14_Witness ==
    /\ passthrough /\ pc = "print" /\ ~end_loop
    /\ readLog = <<1, 2>>
    /\ transfer_info.last_bytes_transferred = MaxInput
    /\ Len(PassSink) = MaxInput

\* The last element of a sequence that is not empty.
Last(q) == q[Len(q)]

\* C15: when a report has been written (pc = "reset"), its speed line shows
\* the rate of the interval, bytes_per_second of the interval's bytes and
\* duration, which last_bps still holds, and its total line shows
\* total_bytes_transferred and total_measures; the step that follows sets
\* last_bps and last_bytes_transferred to zero and last_measured to the
\* instant of the interval check, and changes no other statistic and no
\* stream.
C15_ResetAfterReport ==
    [][pc = "reset" =>
          LET h == Last(history)
              ti == transfer_info
          IN  /\ h.printed
              /\ h.bps = bytes_per_second(h.bytes, h.dur)
              /\ ti.last_bps = h.bps
              /\ ti.last_bytes_transferred = h.bytes
              /\ Last(OfKind(ReportStream, "speed")).mem
                    = byte_to_mem_units(h.bps)
              /\ Last(OfKind(ReportStream, "total")).mem
                    = byte_to_mem_units(FromUsize(ti.total_bytes_transferred))
              /\ Last(OfKind(ReportStream, "total")).cycles = ti.total_measures
              /\ transfer_info'.last_bps = FZero
              /\ transfer_info'.last_bytes_transferred = 0
              /\ transfer_info'.total_bytes_transferred
                    = ti.total_bytes_transferred
              /\ transfer_info'.total_measures = ti.total_measures
              /\ transfer_info'.total_bps = ti.total_bps
              /\ last_measured' = h.at
              /\ stdout' = stdout /\ stderr' = stderr
              /\ pc' = "loopend"
      ]_vars

\* After a report of a rate that is finite and not zero, made a second or
\* more after the start: the interval's statistics are zero, the totals are
\* not, and last_measured has moved.
C15_Witness ==
    /\ pc = "loopend" /\ ~end_loop
    /\ history # <<>> /\ Last(history).printed
    /\ Last(history).bps.k = "fin" /\ Last(history).bps # FZero
    /\ transfer_info.last_bps = FZero
    /\ transfer_info.last_bytes_transferred = 0
    /\ transfer_info.total_bytes_transferred > 0
    /\ transfer_info.total_bps # FZero
    /\ last_measured = Last(history).at /\ last_measured > 0

\* The kinds of the report tokens written so far, in order.
ReportToks == SelectSeq(ReportStream, LAMBDA t : t.k \in ReportKinds)
ReportKindsWritten == [i \in 1..Len(ReportToks) |-> ReportToks[i].k]

\* The three lines of a report: a padded label, a value, and the
\* clear-to-end-of-line sequence with its newline.
ThreeLines == <<"label", "total", "clear", "label", "speed", "clear",
                "label", "average", "clear">>

RECURSIVE ExpectedKinds(_)
\* What k whole reports consist of: the first is three lines, each later
\* one a cursor-up and three lines.
ExpectedKinds(k) ==
    IF k = 0 THEN <<>>
    ELSE ExpectedKinds(k - 1) \o (IF k > 1 THEN <<"up">> ELSE <<>>)
            \o ThreeLines

\* How many reports were written whole.
NumPrinted == Cardinality({i \in 1..Len(history) : history[i].printed})

DataWriteFailed ==
    /\ pc = "write" /\ pc' # "write"
    /\ Len(stdout') < Len(stdout) + bytes_read

\* The step ends a report of which not every write was made: a write of
\* print_info or of print_fixed_width failed.
ReportWriteFailed ==
    /\ pc = "print" /\ pc' # "print"
    /\ Len(ReportToks') < Len(ReportToks) + Len(print_info(transfer_info))

\* C17: the step in which a write of passed-through data or of any part of
\* a report fails ends the process: by exit_err (status 1) after the error
\* line was written to stderr, or by a panic (print_fixed_width's, or
\* print_err_into!'s when the error line cannot be written), with no read
\* and no whole report in it; and a halted process takes no step at all, so
\* no read, data write or report follows.
C17_WriteFailureFatal ==
    [][/\ pc \notin Halted
       /\ (DataWriteFailed \/ ReportWriteFailed) =>
             /\ pc' \in {"exit1", "panic"}
             /\ readLog' = readLog /\ pos' = pos
             /\ NumPrinted' = NumPrinted
             /\ transfer_info' = transfer_info
             /\ pc' = "exit1" =>
                   /\ stderr' # <<>>
                   /\ Last(stderr') = LineTok(
                         IF pc = "write"
                         THEN "Error while writing buffer into stdout:"
                         ELSE "Error while printing output:")
      ]_vars

\* A passthrough write of a two-byte read failed after one byte, the error
\* was printed and the process exited, with input left unread.
C17_Witness ==
    /\ pc = "exit1" /\ passthrough
    /\ bytes_read = 2 /\ Len(PassSink) = 1
    /\ pos < Len(input)
    /\ Last(stderr) = LineTok("Error while writing buffer into stdout:")

\* The reports that are over: written whole, and the reset after them done.
Settled == {i \in 1..Len(history) :
               history[i].printed /\ ~(pc = "reset" /\ i = Len(history))}

RECURSIVE IntervalBytes(_)
\* The interval byte counts of the settled reports among the first k, added
\* up.
IntervalBytes(k) ==
    IF k = 0 THEN 0
    ELSE IntervalBytes(k - 1) + (IF k \in Settled THEN history[k].bytes ELSE 0)

\* C18: total_bytes_transferred is at every moment the sum of the interval
\* byte counts of the reports that are over (written, and the counters
\* reset after them) plus last_bytes_transferred, whatever interval checks
\* without a report and failed reads lie between; when measure_reader
\* returns, last_bytes_transferred is zero and the reports' byte counts add
\* up to the total.
C18_BytesPartitioned ==
    /\ transfer_info.total_bytes_transferred
          = IntervalBytes(Len(history))
               + transfer_info.last_bytes_transferred
    /\ pc = "done" =>
          /\ transfer_info.last_bytes_transferred = 0
          /\ Settled = 1..Len(history)
          /\ IntervalBytes(Len(history)) = SumOk(readLog)

\* One read a pass: the first report counted the bytes of two passes with a
\* failed read between them, the final report the byte read after it.
C18_Witness ==
    /\ pc = "done" /\ iterations = 1
    /\ readLog = <<1, -1, 1, 1, 0>>
    /\ Len(history) = 2
    /\ history[1].bytes = 2 /\ history[2].bytes = 1

\* The instant the interval before report k started from: that of the
\* report before it, or for the first the clock of line 204, which is zero
\* since the clock moves only inside measure_reader's blocking calls.
IntervalStart(k) == IF k = 1 THEN 0 ELSE history[k - 1].at

RECURSIVE SumDur(_)
\* The elapsed times of the first k reports, added up.
SumDur(k) == IF k = 0 THEN 0 ELSE SumDur(k - 1) + history[k].dur

\* C19: the elapsed time every report uses runs from the instant of the
\* report before it (from the start of measure_reader for the first) to the
\* instant of its own interval check, so the elapsed times of the first k
\* reports add up to the instant of the k-th; last_measured is the instant
\* of the check of the last report that is over, or the start, and so is
\* not moved by an interval check without a report nor by the time the
\* writing of a report takes.
C19_IntervalsContiguous ==
    /\ \A k \in 1..Len(history) :
          /\ history[k].dur = history[k].at - IntervalStart(k)
          /\ SumDur(k) = history[k].at
    /\ last_measured
          = (IF Settled = {} THEN 0
             ELSE history[CHOOSE i \in Settled :
                             \A j \in Settled : j <= i].at)
    /\ pc \in {"print", "reset"} => measure_end = Last(history).at
    /\ pc = "done" => SumDur(Len(history)) = measure_end

\* Two reports, each after some time, the second written while the clock
\* moved on: its interval starts at the first one's check and last_measured
\* is the instant of its check, not of the end of its writing.
C19_Witness ==
    /\ pc = "done" /\ Len(history) = 2
    /\ history[1].dur > 0 /\ history[2].dur > 0
    /\ now > measure_end
    /\ last_measured = measure_end
====
